---------------------------- MODULE Spec2Model ----------------------------
(***************************************************************************)
(* Warehouse inventory dashboard: the InventoryDashboard component (item   *)
(* collection, localStorage persistence, add / edit / delete handlers) and *)
(* the InventoryForm component (form state, validateForm, handleSubmit).   *)
(*                                                                         *)
(* One action per handler.  A handler's action includes the React effects  *)
(* that its state updates schedule (the save effect of the dashboard, the  *)
(* populate effect of the form): React flushes them before the next event  *)
(* is handled.  Guards are the conditions the source itself imposes: the   *)
(* dashboard body is rendered only when isLoading is false, the form only  *)
(* when isFormOpen is true.  The Dialog / AlertDialog primitives are not   *)
(* part of the modelled source, so no further guard is taken from them.    *)
(*                                                                         *)
(* Strings are TLA+ strings; ids, names and categories are the literal     *)
(* strings of the source.  An optional value (T | null) is a sequence of   *)
(* length 0 or 1.                                                          *)
(***************************************************************************)
EXTENDS Integers, Sequences, FiniteSets, TLC

VARIABLES
    pc,              \* "mount" (first render done, effects pending), "loading", "ready"
    items,           \* useState<InventoryItem[]>([])
    isFormOpen,      \* useState(false)
    editingItem,     \* useState<InventoryItem | null>(null): <<>> or <<item>>
    isLoading,       \* useState(true)
    storage,         \* localStorage entry 'warehouse-inventory': <<>> or <<text>>
    toast,           \* the toast the last step showed: <<>> or <<toast>>
    now,             \* Date.now()
    formData,        \* InventoryForm: useState({...})
    customCategory,  \* InventoryForm: useState('')
    errors,          \* InventoryForm: useState<Record<string, string>>({})
    inputsLeft,      \* exploration budget: input events the open form may still take
    inputsPerOpening, \* exploration budget: input events per opening of the form
    addsLeft,        \* exploration budget: adds that may still be committed
    editsLeft,       \* exploration budget: edits that may still be committed
    deletesLeft,     \* exploration budget: deletes that may still be issued
    searchTerm,      \* useState('')
    filteredItems,   \* useState<InventoryItem[]>([])
    sortField,       \* InventoryTable: useState<SortField>('item_name')
    sortDirection,   \* InventoryTable: useState<SortDirection>('asc')
    quotaExceeded    \* environment: localStorage.setItem throws QuotaExceededError

vars == <<pc, items, isFormOpen, editingItem, isLoading, storage, toast, now,
          formData, customCategory, errors, inputsLeft, inputsPerOpening,
          addsLeft, editsLeft, deletesLeft, searchTerm, filteredItems, sortField, sortDirection,
          quotaExceeded>>

\* the search box, the filtered view and the table's sort state, with the
\* state of the storage quota
table == <<searchTerm, filteredItems, sortField, sortDirection, quotaExceeded>>

form == <<formData, customCategory, errors, inputsLeft>>

budget == <<addsLeft, editsLeft, deletesLeft, inputsPerOpening>>

---------------------------------------------------------------------------
(* Bounds of the exploration *)

MaxTicks == 1          \* the clock advances at most this many times
MaxAdds == 2           \* Spec: adds per run
MaxEdits == 1          \* Spec: edits per run
MaxDeletes == 1        \* Spec: deletes per run
MaxInputs == 3         \* input events per opening of the form
MaxStockInputs == 4    \* SpecStock: input events per opening of the form
MaxStockAdds == 1      \* SpecStock: adds per run
MaxStockEdits == 1     \* SpecStock: edits per run
MaxStockDeletes == 1   \* SpecStock: deletes per run
MaxFormCommits == 1    \* SpecForm: adds and edits per run
MaxFormDeletes == 1    \* SpecForm: deletes per run
MaxQueryDeletes == 2   \* SpecQuery: deletes per run
MaxQuotaAdds == 1      \* SpecQuota: adds per run
MaxQuotaEdits == 1     \* SpecQuota: edits per run
MaxQuotaDeletes == 1   \* SpecQuota: deletes per run

---------------------------------------------------------------------------
(* Strings *)

Whitespace == {" ", "\t", "\n", "\r"}

RECURSIVE TrimStart(_)
TrimStart(s) ==
    IF Len(s) > 0 /\ SubSeq(s, 1, 1) \in Whitespace THEN TrimStart(Tail(s)) ELSE s

RECURSIVE TrimEnd(_)
TrimEnd(s) ==
    IF Len(s) > 0 /\ SubSeq(s, Len(s), Len(s)) \in Whitespace
    THEN TrimEnd(SubSeq(s, 1, Len(s) - 1))
    ELSE s

\* String.prototype.trim
Trim(s) == TrimEnd(TrimStart(s))

Digits == <<"0", "1", "2", "3", "4", "5", "6", "7", "8", "9">>

IsDigit(c) == \E d \in 1..10 : Digits[d] = c

DigitValue(c) == (CHOOSE d \in 1..10 : Digits[d] = c) - 1

\* Number.prototype.toString (radix 10) for a non-negative integer
RECURSIVE NumberToString(_)
NumberToString(n) ==
    IF n < 10 THEN Digits[n + 1] ELSE NumberToString(n \div 10) \o Digits[(n % 10) + 1]

\* the value of the longest prefix of s made of digits, read after acc;
\* seen tells whether a digit has been read
RECURSIVE ReadDigits(_, _, _)
ReadDigits(s, acc, seen) ==
    IF Len(s) > 0 /\ IsDigit(Head(s))
    THEN ReadDigits(Tail(s), 10 * acc + DigitValue(Head(s)), TRUE)
    ELSE [nan |-> ~seen, n |-> acc]

\* parseInt(s): leading whitespace skipped, an optional sign, then decimal
\* digits up to the first other character; NaN when there is no digit
ParseInt(s) ==
    LET t == TrimStart(s)
        neg == Len(t) > 0 /\ Head(t) = "-"
        body == IF Len(t) > 0 /\ Head(t) \in {"-", "+"} THEN Tail(t) ELSE t
        r == ReadDigits(body, 0, FALSE)
    IN  IF r.nan THEN r ELSE [nan |-> FALSE, n |-> IF neg THEN 0 - r.n ELSE r.n]

\* parseInt(e.target.value) || 0: NaN and 0 are falsy
ParseIntOrZero(s) == LET r == ParseInt(s) IN IF r.nan \/ r.n = 0 THEN 0 ELSE r.n

\* the characters of the model's strings in the order of their UTF-16 code
\* units, which is the order < compares strings by
CodeUnits ==
    " ()+,-./0123456789ABCDEFGHIJKLMNOPQRSTUVWXYZabcdefghijklmnopqrstuvwxyz"

\* the place of character c in CodeUnits
CodeOf(c) == CHOOSE i \in 1..Len(CodeUnits) : SubSeq(CodeUnits, i, i) = c

UpperCase == "ABCDEFGHIJKLMNOPQRSTUVWXYZ"

LowerCase == "abcdefghijklmnopqrstuvwxyz"

\* String.prototype.toLowerCase
RECURSIVE ToLowerCase(_)
ToLowerCase(s) ==
    IF s = "" THEN ""
    ELSE LET c == SubSeq(s, 1, 1)
             l == IF \E i \in 1..Len(UpperCase) : SubSeq(UpperCase, i, i) = c
                  THEN LET i == CHOOSE i \in 1..Len(UpperCase) :
                                    SubSeq(UpperCase, i, i) = c
                       IN  SubSeq(LowerCase, i, i)
                  ELSE c
         IN  l \o ToLowerCase(SubSeq(s, 2, Len(s)))

\* String.prototype.includes: a scan for the first offset where t occurs in s
RECURSIVE IncludesFrom(_, _, _)
IncludesFrom(s, t, from) ==
    IF from + Len(t) > Len(s) THEN FALSE
    ELSE IF SubSeq(s, from + 1, from + Len(t)) = t THEN TRUE
    ELSE IncludesFrom(s, t, from + 1)

Includes(s, t) == IF t = "" THEN TRUE ELSE IncludesFrom(s, t, 0)

\* a < b on strings: by the first code unit that differs, a proper prefix first
RECURSIVE StringLess(_, _)
StringLess(a, b) ==
    IF b = "" THEN FALSE
    ELSE IF a = "" THEN TRUE
    ELSE LET x == CodeOf(SubSeq(a, 1, 1))
             y == CodeOf(SubSeq(b, 1, 1))
         IN  IF x # y THEN x < y
             ELSE StringLess(SubSeq(a, 2, Len(a)), SubSeq(b, 2, Len(b)))

---------------------------------------------------------------------------
(* Data *)

\* const sampleData: InventoryItem[]
sampleData == <<
    [id |-> "1", sku |-> "SKU001", item_name |-> "Industrial Safety Helmet",
     quantity_counted |-> 45, unit_of_measure |-> "pcs",
     location_in_warehouse |-> "Aisle 1, Shelf A", category |-> "Safety Gear",
     condition_notes |-> "Good condition, regular stock rotation",
     last_count_date |-> "2024-01-15", reorder_level |-> 10,
     supplier |-> "SafetyFirst Corp"],
    [id |-> "2", sku |-> "SKU002", item_name |-> "Heavy Duty Work Gloves",
     quantity_counted |-> 5, unit_of_measure |-> "pairs",
     location_in_warehouse |-> "Aisle 1, Shelf B", category |-> "Safety Gear",
     condition_notes |-> "Various sizes available",
     last_count_date |-> "2024-01-14", reorder_level |-> 20,
     supplier |-> "ProtectCo"],
    [id |-> "3", sku |-> "SKU003", item_name |-> "Forklift Battery",
     quantity_counted |-> 8, unit_of_measure |-> "units",
     location_in_warehouse |-> "Aisle 3, Floor Storage", category |-> "Equipment",
     condition_notes |-> "Requires special handling",
     last_count_date |-> "2024-01-13", reorder_level |-> 2,
     supplier |-> "PowerTech Ltd"],
    [id |-> "4", sku |-> "SKU004", item_name |-> "Cardboard Boxes (Large)",
     quantity_counted |-> 500, unit_of_measure |-> "boxes",
     location_in_warehouse |-> "Aisle 5, Bulk Storage", category |-> "Packaging",
     condition_notes |-> "Stacked high, good condition",
     last_count_date |-> "2024-01-12", reorder_level |-> 100,
     supplier |-> "PackRight Inc"],
    [id |-> "5", sku |-> "SKU005", item_name |-> "Cleaning Solvent",
     quantity_counted |-> 25, unit_of_measure |-> "gallons",
     location_in_warehouse |-> "Chemical Storage, Zone C", category |-> "Chemicals",
     condition_notes |-> "Hazardous material - proper ventilation required",
     last_count_date |-> "2024-01-11", reorder_level |-> 5,
     supplier |-> "ChemClean Solutions"] >>

\* const categories = [...]
categories == {"Electronics", "Hardware", "Safety Gear", "Chemicals", "Packaging",
               "Equipment", "Tools", "Office Supplies", "Cleaning Supplies", "Other"}

\* new Date().toISOString().split('T')[0] on the day of the session
Today == "2024-01-16"

\* Date.now() when an earlier session added storedItem, and at the start of
\* this session: timestamps, beyond the seed ids '1'..'5'
EarlierClock == Len(sampleData) + 1
ClockStart == EarlierClock + 1

\* toast({ title: "Success", description })
SuccessToast(description) ==
    [title |-> "Success", description |-> description, variant |-> "default"]

\* toast({ title: "Error", description, variant: "destructive" })
ErrorToast(description) ==
    [title |-> "Error", description |-> description, variant |-> "destructive"]

---------------------------------------------------------------------------
(* localStorage and JSON.  A stored text is empty (''), well-formed JSON    *)
(* for the document doc, or neither.                                       *)

EmptyText == [empty |-> TRUE, wellFormed |-> FALSE, doc |-> <<>>]

MalformedText == [empty |-> FALSE, wellFormed |-> FALSE, doc |-> <<>>]

\* JSON.stringify(value)
JSONstringify(value) == [empty |-> FALSE, wellFormed |-> TRUE, doc |-> value]

\* JSON.parse(text): the document, or a SyntaxError
JSONparse(text) ==
    IF text.wellFormed THEN [threw |-> FALSE, value |-> text.doc]
    ELSE [threw |-> TRUE, value |-> <<>>]

\* an item an earlier session added through the form, with a custom category
storedItem ==
    [id |-> NumberToString(EarlierClock), sku |-> "SKU006", item_name |-> "Shrink Film",
     quantity_counted |-> 4, unit_of_measure |-> "rolls",
     location_in_warehouse |-> "", category |-> "Pallets", condition_notes |-> "",
     last_count_date |-> "2024-01-10", reorder_level |-> 4, supplier |-> "",
     image_url |-> ""]

\* what an earlier session can have left under the key, or what a damaged
\* profile holds there: nothing, '', a text that is not JSON, a one-item
\* collection (the seed deleted, storedItem added)
InitialStorage ==
    {<<>>, <<EmptyText>>, <<MalformedText>>, <<JSONstringify(<<storedItem>>)>>}

\* a save effect that writes whatever the collection is
SaveEffectUnguarded(its, entry) == <<JSONstringify(its)>>

\* useEffect(() => { if (items.length > 0) localStorage.setItem(...) }, [items])
\* run for the collection its: the entry afterwards
SaveEffect(its, entry) ==
    IF Len(its) > 0 THEN <<JSONstringify(its)>> ELSE entry

\* localStorage.setItem throws in the save effect run for the collection its
SaveThrows(its) == quotaExceeded /\ Len(its) > 0

\* a filter that compares with the search term as typed
FilterItemsTermAsTyped(its, term) ==
    SelectSeq(its, LAMBDA item :
        \/ Includes(ToLowerCase(item.item_name), term)
        \/ Includes(ToLowerCase(item.sku), term)
        \/ Includes(ToLowerCase(item.category), term))

\* items.filter(item => item_name / sku / category, lower-cased, includes
\* the lower-cased search term)
FilterItems(its, term) ==
    LET lowered == ToLowerCase(term)
    IN  SelectSeq(its, LAMBDA item :
            \/ Includes(ToLowerCase(item.item_name), lowered)
            \/ Includes(ToLowerCase(item.sku), lowered)
            \/ Includes(ToLowerCase(item.category), lowered))

\* the effects of a render with a new collection its, in their order: the
\* save effect, then the filter effect.  A setItem that throws is an error
\* no handler of the dashboard catches: React takes the component tree down,
\* and the filter effect does not run.
Effects(its) ==
    IF SaveThrows(its)
    THEN UNCHANGED <<storage, filteredItems>>
    ELSE /\ storage' = SaveEffect(its, storage)
         /\ filteredItems' = FilterItems(its, searchTerm)

---------------------------------------------------------------------------
(* InventoryForm state *)

\* useState({ sku: '', ... }) of InventoryForm
DefaultFormData ==
    [sku |-> "", item_name |-> "", quantity_counted |-> 0, unit_of_measure |-> "",
     location_in_warehouse |-> "", category |-> "", condition_notes |-> "",
     last_count_date |-> Today, reorder_level |-> 0, supplier |-> "",
     image_url |-> ""]

NoErrors == [f \in {} |-> ""]

\* item.field || '' for an optional field
OrEmpty(item, field) == IF field \in DOMAIN item THEN item[field] ELSE ""

\* the populate effect's setFormData({...}) for item
FormDataOf(item) ==
    [sku |-> item.sku, item_name |-> item.item_name,
     quantity_counted |-> item.quantity_counted,
     unit_of_measure |-> item.unit_of_measure,
     location_in_warehouse |-> item.location_in_warehouse,
     category |-> item.category,
     condition_notes |-> OrEmpty(item, "condition_notes"),
     last_count_date |-> item.last_count_date,
     reorder_level |-> item.reorder_level,
     supplier |-> OrEmpty(item, "supplier"),
     image_url |-> OrEmpty(item, "image_url")]

\* the populate effect's customCategory for item, cc being the value before
CustomCategoryOf(item, cc) ==
    IF item.category # "" /\ item.category \notin categories THEN item.category ELSE cc

\* the form is not mounted: its state does not exist, written as the defaults
FormUnmounted ==
    /\ formData' = DefaultFormData
    /\ customCategory' = ""
    /\ errors' = NoErrors
    /\ inputsLeft' = 0

\* InventoryForm mounts with prop item (<<>> for null): the initial state,
\* then the populate effect
FormMounted(item) ==
    /\ formData' = IF item = <<>> THEN DefaultFormData ELSE FormDataOf(item[1])
    /\ customCategory' = IF item = <<>> THEN "" ELSE CustomCategoryOf(item[1], "")
    /\ errors' = NoErrors
    /\ inputsLeft' = inputsPerOpening

---------------------------------------------------------------------------
(* Startup *)

Init ==
    /\ pc = "mount"
    /\ items = <<>>
    /\ isFormOpen = FALSE
    /\ editingItem = <<>>
    /\ isLoading = TRUE
    /\ storage \in InitialStorage
    /\ toast = <<>>
    /\ now = ClockStart
    /\ formData = DefaultFormData
    /\ customCategory = ""
    /\ errors = NoErrors
    /\ inputsLeft = 0
    /\ inputsPerOpening = MaxInputs
    /\ addsLeft = MaxAdds
    /\ editsLeft = MaxEdits
    /\ deletesLeft = MaxDeletes
    /\ searchTerm = ""
    /\ filteredItems = <<>>
    /\ sortField = "item_name"
    /\ sortDirection = "asc"
    /\ quotaExceeded = FALSE

\* the effects of the first render: the save effect (items is empty), then
\* fetchItems() up to its await
MountEffects ==
    /\ pc = "mount"
    /\ pc' = "loading"
    /\ storage' = SaveEffect(items, storage)
    /\ toast' = <<>>
    /\ filteredItems' = FilterItems(items, searchTerm)
    /\ UNCHANGED <<items, isFormOpen, editingItem, isLoading, now,
                   form, budget, searchTerm, sortField, sortDirection,
                   quotaExceeded>>

\* a load that hands every stored text to JSON.parse, the empty one included
InitialItemsParsesEmpty(savedItems) ==
    IF savedItems # <<>>
    THEN JSONparse(savedItems[1])
    ELSE [threw |-> FALSE, value |-> sampleData]

\* const initialItems = savedItems ? JSON.parse(savedItems) : sampleData
\* for the entry read: what is loaded, or that JSON.parse threw
InitialItems(savedItems) ==
    IF savedItems # <<>> /\ ~savedItems[1].empty
    THEN JSONparse(savedItems[1])
    ELSE [threw |-> FALSE, value |-> sampleData]

\* fetchItems after the timer: load, or the catch branch; finally
\* setIsLoading(false); then the save effect if items was set
fetchItems ==
    /\ pc = "loading"
    /\ pc' = IF SaveThrows(InitialItems(storage).value) THEN "crashed" ELSE "ready"
    /\ LET loaded == InitialItems(storage)
       IN  IF loaded.threw
           THEN /\ toast' = <<ErrorToast("Failed to load inventory items.")>>
                /\ UNCHANGED <<items, storage, filteredItems>>
           ELSE /\ items' = loaded.value
                /\ Effects(loaded.value)
                /\ toast' = <<>>
    /\ isLoading' = FALSE
    /\ UNCHANGED <<isFormOpen, editingItem, now, form, budget, searchTerm,
                   sortField, sortDirection, quotaExceeded>>

\* time passes.  Only handleAddItem reads the clock, and it leaves the form
\* closed, so the clock is advanced with the form closed only.
Tick ==
    /\ pc = "ready"
    /\ ~isFormOpen
    /\ now < ClockStart + MaxTicks
    /\ now' = now + 1
    /\ toast' = <<>>
    /\ UNCHANGED <<pc, items, isFormOpen, editingItem, isLoading, storage,
                   form, budget, table>>

---------------------------------------------------------------------------
(* InventoryDashboard: the collection *)

\* { ...itemData, id }
WithId(itemData, id) == ("id" :> id) @@ itemData

\* an add that puts the new item at the end of the collection
AddItemAppends(prev, itemData, clock) ==
    prev \o <<WithId(itemData, NumberToString(clock))>>

\* handleAddItem: setItems(prev => [newItem, ...prev]) with id Date.now().toString()
AddItem(prev, itemData, clock) == <<WithId(itemData, NumberToString(clock))>> \o prev

\* handleEditItem: setItems(prev => prev.map(item =>
\*   item.id === editingItem.id ? updatedItem : item))
EditItem(prev, itemData, editing) ==
    [i \in 1..Len(prev) |->
        IF prev[i].id = editing.id THEN WithId(itemData, editing.id) ELSE prev[i]]

\* a delete that removes the first item with the id and then everything after it
DeleteItemTruncates(prev, id) ==
    IF \E i \in 1..Len(prev) : prev[i].id = id
    THEN SubSeq(prev, 1, (CHOOSE i \in 1..Len(prev) :
                            /\ prev[i].id = id
                            /\ \A j \in 1..(i - 1) : prev[j].id # id) - 1)
    ELSE prev

\* handleDeleteItem: setItems(prev => prev.filter(item => item.id !== id))
DeleteItem(prev, id) == SelectSeq(prev, LAMBDA item : item.id # id)

\* <Button onClick={() => setIsFormOpen(true)}>: Add Item
OpenAddForm ==
    /\ pc = "ready"
    /\ addsLeft > 0
    /\ isFormOpen' = TRUE
    /\ IF isFormOpen
       THEN UNCHANGED form
       ELSE FormMounted(editingItem)
    /\ toast' = <<>>
    /\ UNCHANGED <<pc, items, editingItem, isLoading, storage, now, budget,
                   table>>

\* openEditForm(item), from a row of the table.  With the form closed the
\* form mounts; with it open its prop item changes and the populate effect
\* runs again (errors and a customCategory it does not set are kept).  When
\* the row equals the item being edited it may be the same object, and then
\* the effect does not run.
openEditForm(item) ==
    /\ pc = "ready"
    /\ editsLeft > 0
    /\ editingItem' = <<item>>
    /\ isFormOpen' = TRUE
    /\ IF ~isFormOpen
       THEN FormMounted(<<item>>)
       ELSE \/ /\ formData' = FormDataOf(item)
               /\ customCategory' = CustomCategoryOf(item, customCategory)
               /\ UNCHANGED <<errors, inputsLeft>>
            \/ /\ editingItem = <<item>>
               /\ UNCHANGED form
    /\ toast' = <<>>
    /\ UNCHANGED <<pc, items, isLoading, storage, now, budget, table>>

\* a close that leaves the item selected for editing
closeFormKeepsEditing ==
    /\ pc = "ready"
    /\ isFormOpen
    /\ isFormOpen' = FALSE
    /\ FormUnmounted
    /\ toast' = <<>>
    /\ UNCHANGED <<pc, items, editingItem, isLoading, storage, now, budget, table>>

\* closeForm: Cancel, or the dialog's onOpenChange
closeForm ==
    /\ pc = "ready"
    /\ isFormOpen
    /\ isFormOpen' = FALSE
    /\ editingItem' = <<>>
    /\ FormUnmounted
    /\ toast' = <<>>
    /\ UNCHANGED <<pc, items, isLoading, storage, now, budget, table>>

\* handleAddItem(itemData), then the save effect; the form unmounts
handleAddItem(itemData) ==
    /\ addsLeft > 0
    /\ items' = AddItem(items, itemData, now)
    /\ isFormOpen' = FALSE
    /\ toast' = <<SuccessToast("Item added successfully!")>>
    /\ pc' = IF SaveThrows(items') THEN "crashed" ELSE pc
    /\ Effects(items')
    /\ FormUnmounted
    /\ addsLeft' = addsLeft - 1
    /\ UNCHANGED <<editingItem, isLoading, now, editsLeft, deletesLeft,
                   inputsPerOpening, searchTerm, sortField, sortDirection,
                   quotaExceeded>>

\* handleEditItem(itemData), then the save effect; the form unmounts
handleEditItem(itemData) ==
    IF editingItem = <<>>
    THEN UNCHANGED vars
    ELSE /\ editsLeft > 0
         /\ items' = EditItem(items, itemData, editingItem[1])
         /\ editingItem' = <<>>
         /\ isFormOpen' = FALSE
         /\ toast' = <<SuccessToast("Item updated successfully!")>>
         /\ pc' = IF SaveThrows(items') THEN "crashed" ELSE pc
         /\ Effects(items')
         /\ FormUnmounted
         /\ editsLeft' = editsLeft - 1
         /\ UNCHANGED <<isLoading, now, addsLeft, deletesLeft, inputsPerOpening,
                        searchTerm, sortField, sortDirection, quotaExceeded>>

\* handleDeleteItem(id), then the save effect
handleDeleteItem(id) ==
    /\ pc = "ready"
    /\ deletesLeft > 0
    /\ items' = DeleteItem(items, id)
    /\ toast' = <<SuccessToast("Item deleted successfully!")>>
    /\ pc' = IF SaveThrows(items') THEN "crashed" ELSE pc
    /\ Effects(items')
    /\ deletesLeft' = deletesLeft - 1
    /\ UNCHANGED <<isFormOpen, editingItem, isLoading, now, form,
                   addsLeft, editsLeft, inputsPerOpening, searchTerm, sortField,
                   sortDirection, quotaExceeded>>

---------------------------------------------------------------------------
(* InventoryForm: input handlers, validateForm, handleSubmit *)

\* handleInputChange(field, value)
handleInputChange(field, value) ==
    /\ inputsLeft > 0
    /\ inputsLeft' = inputsLeft - 1
    /\ formData' = [formData EXCEPT ![field] = value]
    /\ errors' = IF field \in DOMAIN errors /\ errors[field] # ""
                 THEN [errors EXCEPT ![field] = ""]
                 ELSE errors

\* onChange of a text or date input
ChangeText(field, value) ==
    /\ pc = "ready"
    /\ isFormOpen
    /\ handleInputChange(field, value)
    /\ toast' = <<>>
    /\ UNCHANGED <<pc, items, isFormOpen, editingItem, isLoading, storage,
                   now, customCategory, budget, table>>

\* onChange of a number input: parseInt(e.target.value) || 0
ChangeNumber(field, text) ==
    /\ pc = "ready"
    /\ isFormOpen
    /\ handleInputChange(field, ParseIntOrZero(text))
    /\ toast' = <<>>
    /\ UNCHANGED <<pc, items, isFormOpen, editingItem, isLoading, storage,
                   now, customCategory, budget, table>>

\* onValueChange of the category Select
SelectCategory(value) ==
    /\ pc = "ready"
    /\ isFormOpen
    /\ customCategory' = ""
    /\ handleInputChange("category", IF value = "custom" THEN "" ELSE value)
    /\ toast' = <<>>
    /\ UNCHANGED <<pc, items, isFormOpen, editingItem, isLoading, storage,
                   now, budget, table>>

\* the custom category Input is rendered
CustomInputShown ==
    customCategory # "" \/ (formData.category = "" /\ formData.category \notin categories)

\* onChange of the custom category Input
ChangeCustomCategory(value) ==
    /\ pc = "ready"
    /\ isFormOpen
    /\ CustomInputShown
    /\ customCategory' = value
    /\ handleInputChange("category", "")
    /\ toast' = <<>>
    /\ UNCHANGED <<pc, items, isFormOpen, editingItem, isLoading, storage,
                   now, budget, table>>

\* a validation that stops at the first rule violated
validateFormStopsAtFirst(data, custom) ==
    IF Trim(data.item_name) = "" THEN "item_name" :> "Item name is required"
    ELSE IF data.quantity_counted < 0
    THEN "quantity_counted" :> "Quantity must be 0 or greater"
    ELSE IF data.reorder_level < 0
    THEN "reorder_level" :> "Reorder level must be 0 or greater"
    ELSE IF data.last_count_date = ""
    THEN "last_count_date" :> "Last count date is required"
    ELSE IF data.category = "" /\ Trim(custom) = ""
    THEN "category" :> "Category is required"
    ELSE NoErrors

\* a validation without the two range rules
validateFormNoRange(data, custom) ==
    (IF Trim(data.item_name) = ""
     THEN "item_name" :> "Item name is required" ELSE NoErrors)
    @@ (IF data.last_count_date = ""
        THEN "last_count_date" :> "Last count date is required" ELSE NoErrors)
    @@ (IF data.category = "" /\ Trim(custom) = ""
        THEN "category" :> "Category is required" ELSE NoErrors)

\* validateForm: newErrors
validateForm(data, custom) ==
    (IF Trim(data.item_name) = ""
     THEN "item_name" :> "Item name is required" ELSE NoErrors)
    @@ (IF data.quantity_counted < 0
        THEN "quantity_counted" :> "Quantity must be 0 or greater" ELSE NoErrors)
    @@ (IF data.reorder_level < 0
        THEN "reorder_level" :> "Reorder level must be 0 or greater" ELSE NoErrors)
    @@ (IF data.last_count_date = ""
        THEN "last_count_date" :> "Last count date is required" ELSE NoErrors)
    @@ (IF data.category = "" /\ Trim(custom) = ""
        THEN "category" :> "Category is required" ELSE NoErrors)

\* a final category that takes the custom text as typed
FinalCategoryUntrimmed(data, custom) ==
    IF custom # "" THEN custom ELSE data.category

\* const finalCategory = customCategory.trim() || formData.category
FinalCategory(data, custom) ==
    IF Trim(custom) # "" THEN Trim(custom) ELSE data.category

\* the argument of onSubmit: { ...formData, category: finalCategory }
Candidate(data, custom) == [data EXCEPT !.category = FinalCategory(data, custom)]

\* handleSubmit; onSubmit is editingItem ? handleEditItem : handleAddItem
handleSubmit ==
    /\ pc = "ready"
    /\ isFormOpen
    /\ LET newErrors == validateForm(formData, customCategory)
       IN  IF DOMAIN newErrors = {}
           THEN IF editingItem # <<>>
                THEN handleEditItem(Candidate(formData, customCategory))
                ELSE handleAddItem(Candidate(formData, customCategory))
           ELSE /\ errors' = newErrors
                /\ toast' = <<>>
                /\ UNCHANGED <<pc, items, isFormOpen, editingItem, isLoading,
                               storage, now, formData, customCategory, inputsLeft,
                               budget, table>>

\* the environment: the origin's storage fills up (other tabs, other keys),
\* and from then on localStorage.setItem throws QuotaExceededError
QuotaExhausted ==
    /\ pc = "ready"
    /\ ~quotaExceeded
    /\ quotaExceeded' = TRUE
    /\ toast' = <<>>
    /\ UNCHANGED <<pc, items, isFormOpen, editingItem, isLoading, storage, now,
                   form, budget, searchTerm, filteredItems, sortField,
                   sortDirection>>

---------------------------------------------------------------------------
(* Search, sort and statistics *)

\* onChange of the search box: setSearchTerm, then the filter effect
handleSearch(term) ==
    /\ pc = "ready"
    /\ searchTerm' = term
    /\ filteredItems' = FilterItems(items, term)
    /\ toast' = <<>>
    /\ UNCHANGED <<pc, items, isFormOpen, editingItem, isLoading, storage, now,
                   form, budget, sortField, sortDirection, quotaExceeded>>

\* type SortField
SortFields == {"item_name", "sku", "quantity_counted", "category", "last_count_date"}

\* a sort that starts every selection at ascending
handleSortAlwaysAscending(field) ==
    /\ pc = "ready"
    /\ Len(filteredItems) > 0
    /\ sortField' = field
    /\ sortDirection' = "asc"
    /\ toast' = <<>>
    /\ UNCHANGED <<pc, items, isFormOpen, editingItem, isLoading, storage, now,
                   form, budget, searchTerm, filteredItems, quotaExceeded>>

\* handleSort(field), from a column header; the table renders its headers
\* only when it has rows
handleSort(field) ==
    /\ pc = "ready"
    /\ Len(filteredItems) > 0
    /\ IF sortField = field
       THEN /\ sortDirection' = IF sortDirection = "asc" THEN "desc" ELSE "asc"
            /\ UNCHANGED sortField
       ELSE /\ sortField' = field
            /\ sortDirection' = "asc"
    /\ toast' = <<>>
    /\ UNCHANGED <<pc, items, isFormOpen, editingItem, isLoading, storage, now,
                   form, budget, searchTerm, filteredItems, quotaExceeded>>

\* the days from 1970-01-01 to the day d of month m of year y (Gregorian)
DaysFromCivil(y, m, d) ==
    LET yy == IF m <= 2 THEN y - 1 ELSE y
        era == yy \div 400
        yoe == yy - era * 400
        mp == (m + 9) % 12
        doy == (153 * mp + 2) \div 5 + d - 1
        doe == yoe * 365 + yoe \div 4 - yoe \div 100 + doy
    IN  era * 146097 + doe - 719468

\* the days of month m of year y
DaysInMonth(y, m) ==
    IF m = 2
    THEN IF (y % 4 = 0 /\ y % 100 # 0) \/ y % 400 = 0 THEN 29 ELSE 28
    ELSE IF m \in {4, 6, 9, 11} THEN 30 ELSE 31

\* new Date(s).getTime() for the texts a date input produces: the UTC
\* midnight of yyyy-mm-dd, NaN for '' and for a text that is not a date.
\* The time value is counted in days, the unit in which these values differ
\* (getTime() is 86 400 000 times as much).
DateValue(s) ==
    LET year == ParseInt(SubSeq(s, 1, 4))
        month == ParseInt(SubSeq(s, 6, 7))
        day == ParseInt(SubSeq(s, 9, 10))
    IN  IF /\ Len(s) = 10
           /\ \A i \in {1, 2, 3, 4, 6, 7, 9, 10} : IsDigit(SubSeq(s, i, i))
           /\ SubSeq(s, 5, 5) = "-" /\ SubSeq(s, 8, 8) = "-"
           /\ month.n \in 1..12
           /\ day.n \in 1..DaysInMonth(year.n, month.n)
        THEN [nan |-> FALSE,
              n |-> DaysFromCivil(year.n, month.n, day.n)]
        ELSE [nan |-> TRUE, n |-> 0]

\* aValue / bValue of the comparator: Number(...) for quantity_counted, the
\* date's time value for last_count_date, the lower-cased String(...) otherwise
SortValue(item, field) ==
    IF field = "quantity_counted" THEN item[field]
    ELSE IF field = "last_count_date" THEN DateValue(item[field])
    ELSE ToLowerCase(item[field])

\* aValue < bValue (never true of NaN)
ValueLess(x, y, field) ==
    IF field = "quantity_counted" THEN x < y
    ELSE IF field = "last_count_date" THEN ~x.nan /\ ~y.nan /\ x.n < y.n
    ELSE StringLess(x, y)

\* the comparator of sortedItems: negative, zero or positive
Compare(a, b, field, direction) ==
    LET aValue == SortValue(a, field)
        bValue == SortValue(b, field)
    IN  IF ValueLess(aValue, bValue, field)
        THEN IF direction = "asc" THEN -1 ELSE 1
        ELSE IF ValueLess(bValue, aValue, field)
        THEN IF direction = "asc" THEN 1 ELSE -1
        ELSE 0

\* Array.prototype.sort is stable: an element goes behind the last element
\* of the sorted prefix that the comparator does not put after it
RECURSIVE InsertSorted(_, _, _, _)
InsertSorted(sorted, x, field, direction) ==
    IF sorted = <<>> THEN <<x>>
    ELSE IF Compare(sorted[Len(sorted)], x, field, direction) <= 0
    THEN Append(sorted, x)
    ELSE Append(InsertSorted(SubSeq(sorted, 1, Len(sorted) - 1), x, field, direction),
                sorted[Len(sorted)])

RECURSIVE SortPrefix(_, _, _, _)
SortPrefix(its, n, field, direction) ==
    IF n = 0 THEN <<>>
    ELSE InsertSorted(SortPrefix(its, n - 1, field, direction), its[n], field, direction)

\* a descending order made by turning the ascending order around
sortedItemsTurnedAround(its, field, direction) ==
    LET ascending == SortPrefix(its, Len(its), field, "asc")
    IN  IF direction = "asc" THEN ascending
        ELSE [i \in 1..Len(its) |-> ascending[Len(its) + 1 - i]]

\* const sortedItems = [...items].sort((a, b) => ...)
sortedItems(its, field, direction) == SortPrefix(its, Len(its), field, direction)

\* a low-stock list of the items below their reorder level
lowStockItemsBelow(its) ==
    SelectSeq(its, LAMBDA item : item.quantity_counted < item.reorder_level)

\* a low-stock list with the comparison turned around
lowStockItemsTurnedAround(its) ==
    SelectSeq(its, LAMBDA item : item.reorder_level <= item.quantity_counted)

\* const lowStockItems = items.filter(item =>
\*   item.quantity_counted <= item.reorder_level); the dashboard shows its length
lowStockItems(its) ==
    SelectSeq(its, LAMBDA item : item.quantity_counted <= item.reorder_level)

\* InventoryTable: isLowStock(item), the flag of a row
isLowStock(item) == item.quantity_counted <= item.reorder_level

---------------------------------------------------------------------------
(* Inputs of the exploration *)

\* the ids handleDeleteItem is called with: those of the rows, and ids that
\* no row carries (the handler's no-match branch)
DeleteIds == {NumberToString(n) : n \in 1..(ClockStart + MaxTicks)}

\* Spec: what the user enters in the form
TextInputs == {<<"item_name", "Pallet Wrap">>}
CategoryInputs == {"Packaging"}

\* SpecForm: what the user enters in the form
FormTextInputs ==
    {<<"item_name", "Pallet Wrap">>, <<"item_name", "  ">>, <<"last_count_date", "">>}
FormNumberInputs ==
    {<<"quantity_counted", "-1">>, <<"quantity_counted", "3">>,
     <<"reorder_level", "-1">>}
FormCategoryInputs == {"Packaging", "custom"}
FormCustomInputs == {" Pallets ", " "}

---------------------------------------------------------------------------
(* Specifications *)

Next ==
    \/ MountEffects
    \/ fetchItems
    \/ Tick
    \/ OpenAddForm
    \/ \E i \in 1..Len(items) : openEditForm(items[i])
    \/ closeForm
    \/ \E id \in DeleteIds : handleDeleteItem(id)
    \/ \E e \in TextInputs : ChangeText(e[1], e[2])
    \/ \E v \in CategoryInputs : SelectCategory(v)
    \/ handleSubmit

Spec == Init /\ [][Next]_vars

\* the form under all of its inputs
InitForm ==
    /\ pc = "mount"
    /\ items = <<>>
    /\ isFormOpen = FALSE
    /\ editingItem = <<>>
    /\ isLoading = TRUE
    /\ storage \in InitialStorage
    /\ toast = <<>>
    /\ now = ClockStart
    /\ formData = DefaultFormData
    /\ customCategory = ""
    /\ errors = NoErrors
    /\ inputsLeft = 0
    /\ inputsPerOpening = MaxInputs
    /\ addsLeft \in 0..MaxFormCommits
    /\ editsLeft = MaxFormCommits - addsLeft
    /\ deletesLeft = MaxFormDeletes
    /\ searchTerm = ""
    /\ filteredItems = <<>>
    /\ sortField = "item_name"
    /\ sortDirection = "asc"
    /\ quotaExceeded = FALSE

NextForm ==
    \/ MountEffects
    \/ fetchItems
    \/ Tick
    \/ OpenAddForm
    \/ \E i \in 1..Len(items) : openEditForm(items[i])
    \/ closeForm
    \/ \E id \in DeleteIds : handleDeleteItem(id)
    \/ \E e \in FormTextInputs : ChangeText(e[1], e[2])
    \/ \E e \in FormNumberInputs : ChangeNumber(e[1], e[2])
    \/ \E v \in FormCategoryInputs : SelectCategory(v)
    \/ \E v \in FormCustomInputs : ChangeCustomCategory(v)
    \/ handleSubmit

SpecForm == InitForm /\ [][NextForm]_vars

\* SpecQuery: what the user types in the search box
SearchTerms == {"", "glove", "SAFETY", "sku00", "zzz"}

\* search and sort over the loaded collection, with deletes from the rows
InitQuery ==
    /\ pc = "mount"
    /\ items = <<>>
    /\ isFormOpen = FALSE
    /\ editingItem = <<>>
    /\ isLoading = TRUE
    /\ storage \in InitialStorage
    /\ toast = <<>>
    /\ now = ClockStart
    /\ formData = DefaultFormData
    /\ customCategory = ""
    /\ errors = NoErrors
    /\ inputsLeft = 0
    /\ inputsPerOpening = MaxInputs
    /\ addsLeft = 0
    /\ editsLeft = 0
    /\ deletesLeft = MaxQueryDeletes
    /\ searchTerm = ""
    /\ filteredItems = <<>>
    /\ sortField = "item_name"
    /\ sortDirection = "asc"
    /\ quotaExceeded = FALSE

NextQuery ==
    \/ MountEffects
    \/ fetchItems
    \/ \E term \in SearchTerms : handleSearch(term)
    \/ \E field \in SortFields : handleSort(field)
    \/ \E i \in 1..Len(filteredItems) : handleDeleteItem(filteredItems[i].id)

SpecQuery == InitQuery /\ [][NextQuery]_vars

\* SpecStock: the quantities and reorder levels the user enters
StockNumberInputs ==
    {<<"quantity_counted", "3">>, <<"quantity_counted", "6">>,
     <<"reorder_level", "5">>}

\* adds, edits and deletes that move items across the reorder level
InitStock ==
    /\ pc = "mount"
    /\ items = <<>>
    /\ isFormOpen = FALSE
    /\ editingItem = <<>>
    /\ isLoading = TRUE
    /\ storage \in InitialStorage
    /\ toast = <<>>
    /\ now = ClockStart
    /\ formData = DefaultFormData
    /\ customCategory = ""
    /\ errors = NoErrors
    /\ inputsLeft = 0
    /\ inputsPerOpening = MaxStockInputs
    /\ addsLeft = MaxStockAdds
    /\ editsLeft = MaxStockEdits
    /\ deletesLeft = MaxStockDeletes
    /\ searchTerm = ""
    /\ filteredItems = <<>>
    /\ sortField = "item_name"
    /\ sortDirection = "asc"
    /\ quotaExceeded = FALSE

NextStock ==
    \/ MountEffects
    \/ fetchItems
    \/ OpenAddForm
    \/ \E i \in 1..Len(filteredItems) : openEditForm(filteredItems[i])
    \/ closeForm
    \/ \E i \in 1..Len(filteredItems) : handleDeleteItem(filteredItems[i].id)
    \/ \E e \in TextInputs : ChangeText(e[1], e[2])
    \/ \E e \in StockNumberInputs : ChangeNumber(e[1], e[2])
    \/ \E v \in CategoryInputs : SelectCategory(v)
    \/ handleSubmit

SpecStock == InitStock /\ [][NextStock]_vars

\* adds, edits and deletes with a storage that can fill up
InitQuota ==
    /\ pc = "mount"
    /\ items = <<>>
    /\ isFormOpen = FALSE
    /\ editingItem = <<>>
    /\ isLoading = TRUE
    /\ storage \in InitialStorage
    /\ toast = <<>>
    /\ now = ClockStart
    /\ formData = DefaultFormData
    /\ customCategory = ""
    /\ errors = NoErrors
    /\ inputsLeft = 0
    /\ inputsPerOpening = MaxInputs
    /\ addsLeft = MaxQuotaAdds
    /\ editsLeft = MaxQuotaEdits
    /\ deletesLeft = MaxQuotaDeletes
    /\ searchTerm = ""
    /\ filteredItems = <<>>
    /\ sortField = "item_name"
    /\ sortDirection = "asc"
    /\ quotaExceeded = FALSE

NextQuota ==
    \/ MountEffects
    \/ fetchItems
    \/ QuotaExhausted
    \/ OpenAddForm
    \/ \E i \in 1..Len(filteredItems) : openEditForm(filteredItems[i])
    \/ closeForm
    \/ \E i \in 1..Len(filteredItems) : handleDeleteItem(filteredItems[i].id)
    \/ \E e \in TextInputs : ChangeText(e[1], e[2])
    \/ \E v \in CategoryInputs : SelectCategory(v)
    \/ handleSubmit

SpecQuota == InitQuota /\ [][NextQuota]_vars

---------------------------------------------------------------------------
(* Properties *)

AddedToast == <<SuccessToast("Item added successfully!")>>
UpdatedToast == <<SuccessToast("Item updated successfully!")>>
DeletedToast == <<SuccessToast("Item deleted successfully!")>>
LoadErrorToast == <<ErrorToast("Failed to load inventory items.")>>

\* C1: no two items of the in-memory collection have the same id, whatever
\* loads, adds, edits and deletes came before (two adds at one clock value
\* included).
C1_UniqueIds ==
    \A i, j \in 1..Len(items) : i # j => items[i].id # items[j].id

\* C2: once an add, an edit or a delete has changed the collection and its
\* save effect has run, the entry stored under 'warehouse-inventory' is the
\* serialization of the in-memory collection, the delete of the last item
\* included.
C2_StoredIsCurrent ==
    [][(toast' \in {AddedToast, UpdatedToast, DeletedToast} /\ items' # items)
          => storage' = <<JSONstringify(items')>>]_vars

\* the step in which fetchItems completes
LoadStep == pc = "loading" /\ pc' = "ready"

Denotes(s, n) == ParseInt(s) = [nan |-> FALSE, n |-> n]

\* C4: an add of a valid candidate leaves exactly one more item: the new
\* item is at the head, its id is the one assigned at that moment (the
\* clock's decimal numeral), its other fields are the candidate's, and the
\* items present before follow it, unchanged and in the same order.
C4_AddPrepends ==
    [][toast' = AddedToast =>
          LET candidate == Candidate(formData, customCategory)
          IN  /\ Len(items') = Len(items) + 1
              /\ Tail(items') = items
              /\ DOMAIN Head(items') = DOMAIN candidate \cup {"id"}
              /\ \A f \in DOMAIN candidate : Head(items')[f] = candidate[f]
              /\ Denotes(Head(items').id, now)]_vars

\* an item has just been added in front of the demonstration dataset
C4_Witness ==
    /\ toast = AddedToast
    /\ Len(items) = Len(sampleData) + 1
    /\ Tail(items) = sampleData
    /\ Head(items).item_name = "Pallet Wrap"

\* C5: an edit of an item of the collection with fields X leaves the
\* collection the same length, the item at the same position with the same
\* id and fields equal to X, and every other item unchanged.
C5_EditReplacesOnlyTarget ==
    [][(editingItem # <<>> /\ toast' = UpdatedToast) =>
          LET X == Candidate(formData, customCategory)
          IN  \A i \in 1..Len(items) :
                items[i] = editingItem[1] =>
                  /\ Len(items') = Len(items)
                  /\ items'[i].id = items[i].id
                  /\ \A f \in DOMAIN X : items'[i][f] = X[f]
                  /\ \A j \in 1..Len(items) : j # i => items'[j] = items[j]]_vars

\* seq without its elements that carry id, in order
RECURSIVE Without(_, _)
Without(seq, id) ==
    IF seq = <<>> THEN <<>>
    ELSE (IF Head(seq).id = id THEN <<>> ELSE <<Head(seq)>>) \o Without(Tail(seq), id)

\* C6: after delete(id) no item of the collection has that id and all other
\* items remain, unchanged and in the same relative order; when no item has
\* that id the collection is unchanged and no error is shown, so that a
\* second delete of the id changes nothing.
C6_DeleteRemovesExactlyId ==
    [][\A id \in DeleteIds :
          handleDeleteItem(id) =>
            /\ \A k \in 1..Len(items') : items'[k].id # id
            /\ items' = Without(items, id)
            /\ (\A k \in 1..Len(items) : items[k].id # id) => items' = items
            /\ DeleteItem(items', id) = items'
            /\ toast' = DeletedToast]_vars

\* the forklift battery has just been deleted from the demonstration dataset
C6_Witness ==
    /\ toast = DeletedToast
    /\ items = <<sampleData[1], sampleData[2], sampleData[4], sampleData[5]>>

\* C7: an update whose target id matches no item of the collection is not
\* reported as a successful update.
C7_MissingTargetNotReportedUpdated ==
    [][(editingItem # <<>> /\ \A i \in 1..Len(items) : items[i].id # editingItem[1].id)
          => toast' # UpdatedToast]_vars

\* s holds nothing but whitespace
IsBlank(s) == \A i \in 1..Len(s) : SubSeq(s, i, i) \in Whitespace

\* the five rules of the form, by the field they are reported on: those the
\* form state violates
ViolatedRules(data, custom) ==
    {f \in {"item_name", "quantity_counted", "reorder_level", "last_count_date",
            "category"} :
        CASE f = "item_name" -> IsBlank(data.item_name)
          [] f = "quantity_counted" -> ~(data.quantity_counted >= 0)
          [] f = "reorder_level" -> ~(data.reorder_level >= 0)
          [] f = "last_count_date" -> Len(data.last_count_date) = 0
          [] f = "category" -> Len(data.category) = 0 /\ IsBlank(custom)}

\* C8: a submit checks all five rules and records an error for exactly the
\* fields whose rule is violated; with a rule violated nothing reaches the
\* repository and the collection (and its stored entry) is unchanged; with
\* none violated the candidate reaches the add or the edit handler.
C8_SubmitValidates ==
    [][handleSubmit =>
          LET bad == ViolatedRules(formData, customCategory)
          IN  /\ bad # {} =>
                    /\ DOMAIN errors' = bad
                    /\ \A f \in bad : errors'[f] # ""
                    /\ items' = items
                    /\ storage' = storage
                    /\ toast' = <<>>
                    /\ isFormOpen'
              /\ bad = {} =>
                    /\ ~isFormOpen'
                    /\ toast' = IF editingItem = <<>> THEN AddedToast ELSE UpdatedToast
                    /\ editingItem = <<>> =>
                          /\ Len(items') = Len(items) + 1
                          /\ Head(items').item_name = formData.item_name]_vars

\* a submit has just been rejected with all five rules violated
C8_Witness ==
    /\ isFormOpen
    /\ DOMAIN errors = {"item_name", "quantity_counted", "reorder_level",
                        "last_count_date", "category"}
    /\ \A f \in DOMAIN errors : errors[f] # ""
    /\ formData.quantity_counted < 0
    /\ formData.reorder_level < 0

\* C9: every item of the collection has quantity_counted >= 0 and
\* reorder_level >= 0, whatever validated adds and edits and whatever
\* deletes came before.
C9_NonNegative ==
    \A i \in 1..Len(items) :
        items[i].quantity_counted >= 0 /\ items[i].reorder_level >= 0

\* a quantity typed into the form has just been committed next to items of
\* the demonstration dataset
C9_Witness ==
    /\ toast \in {AddedToast, UpdatedToast}
    /\ \E i \in 1..Len(items) : items[i].quantity_counted = 3
    /\ \E i \in 1..Len(items) : items[i] = sampleData[1]

\* t is s without its leading and trailing whitespace, s not being blank
IsTrimOf(t, s) ==
    \E i \in 1..Len(s) : \E j \in i..Len(s) :
        /\ t = SubSeq(s, i, j)
        /\ SubSeq(s, i, i) \notin Whitespace
        /\ SubSeq(s, j, j) \notin Whitespace
        /\ \A k \in 1..(i - 1) : SubSeq(s, k, k) \in Whitespace
        /\ \A k \in (j + 1)..Len(s) : SubSeq(s, k, k) \in Whitespace

\* C10: the item a submit commits has a non-empty category: the trimmed
\* custom text when the custom text is not blank (whatever is selected),
\* and otherwise the selected value, which is one of the enumerated ones.
C10_CommittedCategory ==
    [][(handleSubmit /\ toast' \in {AddedToast, UpdatedToast}) =>
          LET committed ==
                IF editingItem = <<>> THEN {Head(items')}
                ELSE {items'[k] : k \in {i \in 1..Len(items) :
                                            items[i].id = editingItem[1].id}}
          IN  \A item \in committed :
                /\ item.category # ""
                /\ IF IsBlank(customCategory)
                   THEN item.category = formData.category
                        /\ item.category \in categories
                   ELSE IsTrimOf(item.category, customCategory)]_vars

\* an item has just been added under the custom category typed as " Pallets "
C10_Witness ==
    /\ toast = AddedToast
    /\ Head(items).category = "Pallets"
    /\ Head(items).item_name = "Pallet Wrap"

\* t occurs in s at some offset
OccursIn(t, s) ==
    \E k \in 0..(Len(s) - Len(t)) : SubSeq(s, k + 1, k + Len(t)) = t

\* the lower-cased term occurs in the lower-cased item_name, sku or category
Matches(item, term) ==
    \E f \in {"item_name", "sku", "category"} :
        OccursIn(ToLowerCase(term), ToLowerCase(item[f]))

\* C11: the filtered view holds exactly the items of the collection, in
\* collection order, whose item_name, sku or category contains the search
\* term, case ignored; the empty term keeps every item and a term that
\* matches nothing leaves the view empty.
C11_FilteredView ==
    pc = "ready" =>
        /\ filteredItems = SelectSeq(items, LAMBDA item : Matches(item, searchTerm))
        /\ searchTerm = "" => filteredItems = items
        /\ (\A i \in 1..Len(items) : ~Matches(items[i], searchTerm))
              => filteredItems = <<>>

\* "glove" has been typed over the demonstration dataset: the view holds the
\* work gloves alone
C11_Witness ==
    /\ searchTerm = "glove"
    /\ items = sampleData
    /\ filteredItems = <<sampleData[2]>>

\* C12: the table starts sorted by item_name ascending; selecting the
\* active sort field keeps the field and flips the direction, selecting
\* another field makes it the active one with direction ascending; nothing
\* but a selection changes the sort state.
C12_SortToggle ==
    /\ sortField = "item_name" /\ sortDirection = "asc"
    /\ [][/\ \A field \in SortFields :
               handleSort(field) =>
                   IF sortField = field
                   THEN /\ sortField' = field
                        /\ sortDirection \in {"asc", "desc"}
                        /\ sortDirection' \in {"asc", "desc"} \ {sortDirection}
                   ELSE /\ sortField' = field
                        /\ sortDirection' = "asc"
          /\ (\A field \in SortFields : ~handleSort(field))
                => UNCHANGED <<sortField, sortDirection>>]_vars

\* another field has been selected, and then selected again
C12_Witness ==
    /\ sortField = "quantity_counted"
    /\ sortDirection = "desc"
    /\ Len(filteredItems) > 0

\* <<year, month, day>> of a date text yyyy-mm-dd
DateParts(s) ==
    <<ParseInt(SubSeq(s, 1, 4)).n, ParseInt(SubSeq(s, 6, 7)).n,
      ParseInt(SubSeq(s, 9, 10)).n>>

\* the key of item a comes before the key of item b: by number for
\* quantity_counted, by calendar day for last_count_date, by the lower-cased
\* string otherwise
KeyBefore(a, b, field) ==
    IF field = "quantity_counted" THEN a[field] < b[field]
    ELSE IF field = "last_count_date"
    THEN LET x == DateParts(a[field])
             y == DateParts(b[field])
         IN  \/ x[1] < y[1]
             \/ x[1] = y[1] /\ x[2] < y[2]
             \/ x[1] = y[1] /\ x[2] = y[2] /\ x[3] < y[3]
    ELSE StringLess(ToLowerCase(a[field]), ToLowerCase(b[field]))

\* a and b have equal keys
KeyTied(a, b, field) == ~KeyBefore(a, b, field) /\ ~KeyBefore(b, a, field)

\* C13: the sorted view is a permutation of the table's items, ordered by
\* the active field's key in the active direction; items with equal keys
\* keep their input order, ascending and descending; with no two keys equal
\* the descending view is the ascending view turned around.
C13_SortedView ==
    pc = "ready" =>
        LET its == filteredItems
            n == Len(its)
            view == sortedItems(its, sortField, sortDirection)
            \* input element j stands before input element i in the view
            Ahead(j, i) ==
                \/ IF sortDirection = "asc" THEN KeyBefore(its[j], its[i], sortField)
                   ELSE KeyBefore(its[i], its[j], sortField)
                \/ KeyTied(its[j], its[i], sortField) /\ j < i
            place == [i \in 1..n |-> 1 + Cardinality({j \in 1..n : Ahead(j, i)})]
            ascending == sortedItems(its, sortField, "asc")
            descending == sortedItems(its, sortField, "desc")
        IN  /\ Len(view) = n
            /\ {place[i] : i \in 1..n} = 1..n
            /\ \A i \in 1..n : view[place[i]] = its[i]
            /\ \A a, b \in 1..n :
                  a < b => ~(IF sortDirection = "asc"
                             THEN KeyBefore(view[b], view[a], sortField)
                             ELSE KeyBefore(view[a], view[b], sortField))
            /\ (\A i, j \in 1..n : i # j => ~KeyTied(its[i], its[j], sortField))
                  => \A i \in 1..n : descending[i] = ascending[n + 1 - i]

\* the demonstration dataset sorted by category, descending: the two Safety
\* Gear items tie and are shown helmet first, as in the collection
C13_Witness ==
    /\ pc = "ready"
    /\ filteredItems = sampleData
    /\ sortField = "category"
    /\ sortDirection = "desc"
    /\ sortedItems(filteredItems, sortField, sortDirection)
         = <<sampleData[1], sampleData[2], sampleData[4], sampleData[3], sampleData[5]>>

\* the items of the collection that are low on stock: the counted quantity
\* does not exceed the reorder level
LowOnStock == {i \in 1..Len(items) : ~(items[i].quantity_counted > items[i].reorder_level)}

\* C14: the low-stock count the dashboard shows is the number of items of
\* the collection with quantity_counted <= reorder_level, an item at its
\* reorder level being low on stock and one a unit above it not; the flag
\* of each row of the table follows the same predicate.
C14_LowStockCount ==
    /\ Len(lowStockItems(items)) = Cardinality(LowOnStock)
    /\ \A i \in 1..Len(items) :
          /\ items[i].quantity_counted = items[i].reorder_level
                => lowStockItems(<<items[i]>>) = <<items[i]>>
          /\ items[i].quantity_counted = items[i].reorder_level + 1
                => lowStockItems(<<items[i]>>) = <<>>
    /\ \A i \in 1..Len(filteredItems) :
          isLowStock(filteredItems[i])
             <=> ~(filteredItems[i].quantity_counted > filteredItems[i].reorder_level)

\* the collection holds an item at its reorder level and an item one unit
\* above it, next to the demonstration dataset's
C14_Witness ==
    /\ pc = "ready"
    /\ \E i \in 1..Len(items) :
          items[i].quantity_counted = items[i].reorder_level + 1
    /\ \E i \in 1..Len(items) :
          items[i].quantity_counted = items[i].reorder_level
    /\ \E i \in 1..Len(items) : items[i] = sampleData[2]

\* the scenario's item has been added to the demonstration dataset
ScenarioAdded ==
    /\ Len(items) = Len(sampleData) + 1
    /\ Tail(items) = sampleData
    /\ Head(items).quantity_counted = 3
    /\ Head(items).reorder_level = 5

\* and then the item with sku SKU003 has been deleted
ScenarioDeleted ==
    /\ Len(items) = Len(sampleData)
    /\ Tail(items) = <<sampleData[1], sampleData[2], sampleData[4], sampleData[5]>>
    /\ Head(items).quantity_counted = 3
    /\ Head(items).reorder_level = 5

\* C15 as stated: from the demonstration dataset, adding an item with
\* quantity 3 and reorder level 5 makes the low-stock count 3, and deleting
\* SKU003 then makes it 2.
C15_ScenarioAsStated ==
    /\ ScenarioAdded => Len(lowStockItems(items)) = 3
    /\ ScenarioDeleted => Len(lowStockItems(items)) = 2

\* C15: the demonstration dataset has one item low on stock (the work
\* gloves); adding an item with quantity 3 and reorder level 5 makes the
\* low-stock count 2, and deleting SKU003, which is not low on stock,
\* leaves it at 2.
C15_Scenario ==
    /\ items = sampleData => Len(lowStockItems(items)) = 1
    /\ ScenarioAdded => Len(lowStockItems(items)) = 2
    /\ ScenarioDeleted => Len(lowStockItems(items)) = 2

\* the scenario has been played to its end
C15_Witness ==
    /\ ScenarioDeleted
    /\ toast = DeletedToast
    /\ Head(items).item_name = "Pallet Wrap"
    /\ addsLeft = 0

\* C16: when the write that follows an add, an edit or a delete fails, the
\* failure is reported (a destructive toast, not the success toast), the
\* collection keeps the mutation, and the dashboard is still there for the
\* next operation.
C16_WriteFailureReported ==
    [][(/\ quotaExceeded
        /\ <<addsLeft, editsLeft, deletesLeft>>' # <<addsLeft, editsLeft, deletesLeft>>
        /\ Len(items') > 0)
          => /\ toast' # <<>>
             /\ toast'[1].variant = "destructive"
             /\ pc' = "ready"
             /\ items' # items]_vars

\* C17: from mount until the load completes the collection is empty and
\* no step changes the stored entry, and the load then reads the entry the
\* previous session left: a stored collection is what gets loaded.
C17_StartupKeepsStoredEntry ==
    [][/\ pc' \in {"mount", "loading"} => (storage' = storage /\ items' = <<>>)
       /\ pc \in {"mount", "loading"} => items = <<>>
       /\ (LoadStep /\ storage # <<>> /\ storage[1].wellFormed)
             => items' = storage[1].doc /\ storage'[1].doc = storage[1].doc]_vars

\* the stored one-item collection has been loaded, and is still what is stored
C17_Witness ==
    /\ pc = "ready"
    /\ items = <<storedItem>>
    /\ storage = <<JSONstringify(<<storedItem>>)>>
    /\ addsLeft = MaxAdds /\ editsLeft = MaxEdits /\ deletesLeft = MaxDeletes

\* C18: an item is selected for editing only while the form is open.  The
\* Add Item button opens the form with no item selected, and a submit with
\* no item selected is an add that keeps every existing item; a row's edit
\* button selects that row's item, and a submit with an item selected is an
\* edit under that item's id that adds nothing and leaves alone every item
\* with another id.
C18_EditingOnlyWhileOpen ==
    /\ ~isFormOpen => editingItem = <<>>
    /\ [][/\ (OpenAddForm /\ ~isFormOpen) => (isFormOpen' /\ editingItem' = <<>>)
          /\ \A i \in 1..Len(items) :
                openEditForm(items[i]) => (isFormOpen' /\ editingItem' = <<items[i]>>)
          /\ (handleSubmit /\ items' # items /\ editingItem = <<>>) =>
                /\ toast' = AddedToast
                /\ Tail(items') = items
          /\ (handleSubmit /\ items' # items /\ editingItem # <<>>) =>
                /\ toast' = UpdatedToast
                /\ Len(items') = Len(items)
                /\ \A i \in 1..Len(items) :
                      /\ items'[i].id = items[i].id
                      /\ items[i].id # editingItem[1].id => items'[i] = items[i]]_vars

\* after an edit had been submitted the form was opened with Add Item, and
\* its submit has added an item on top of the collection
C18_Witness ==
    /\ toast = AddedToast
    /\ editsLeft < MaxEdits
    /\ ~isFormOpen
    /\ editingItem = <<>>
    /\ Len(items) = Len(sampleData) + 1

=============================================================================
